---- MODULE Spec2Model ----
(***************************************************************************)
(* The per-connection Stratum client of the mining pool (pool/client.go).  *)
(* One Client is four goroutines (read, process, send, hashMonitor) and the *)
(* supervisor run, joined by two unbuffered channels (readCh, ch), a cancel *)
(* signal (ctx) and a wait group.                                           *)
(***************************************************************************)
EXTENDS Integers, Sequences, FiniteSets, TLC

\* ------------------------------------------------------------------ bounds
\* Messages the socket delivers before the read deadline expires.
MaxMsgs == 3
\* Work notifications the rest of the pool offers on the client's channel.
MaxPoolNotifies == 1

\* --------------------------------------------------------------- constants
\* hashCalcThreshold, the divisor of the hash rate formula.
hashCalcThreshold == 20

\* Stratum methods.
Authorize == "mining.authorize"
Subscribe == "mining.subscribe"
Submit == "mining.submit"
SetDifficulty == "mining.set_difficulty"
Notify == "mining.notify"

\* Message types, as IdentifyMessage reports them.
RequestMessage == "request"
ResponseMessage == "response"
NotificationMessage == "notification"

\* Stratum error kinds; NoError is the nil error.
Unknown == "Unknown"
LowDifficultyShare == "LowDifficultyShare"
DuplicateShare == "DuplicateShare"
NoError == "nil"

\* Miner variants an endpoint can be configured with; OtherMiner stands for
\* any tag the sender's switch does not know.
CPU == "cpu"
AntminerDR3 == "antminerdr3"
AntminerDR5 == "antminerdr5"
InnosiliconD9 == "innosilicond9"
WhatsminerD1 == "whatsminerd1"
OtherMiner == "obelisksc1"
KnownMiners == {CPU, AntminerDR3, AntminerDR5, InnosiliconD9, WhatsminerD1}
Miners == KnownMiners \cup {OtherMiner}

MainNet == "mainnet"
SimNet == "simnet"
Networks == {MainNet, SimNet}

\* ShareWeights[miner]: the weight is kept symbolic, one per miner tag; a tag
\* that is no key of the map reads as the zero value.
ShareWeights(miner) == IF miner \in KnownMiners THEN <<"weight", miner>> ELSE <<"weight", "zero">>

\* The client's extraNonce1 (4 random bytes, hex encoded), kept symbolic.
ExtraNonce1 == "en1"
\* ExtraNonce2Size, the extraNonce2 size the pool announces by default.
ExtraNonce2Size == 4

\* -------------------------------------------------------------- arithmetic
\* A big.Rat is a pair <<numerator, denominator>> in lowest terms, the
\* numerator not negative and the denominator positive.
RECURSIVE GCD(_, _)
GCD(a, b) == IF b = 0 THEN a ELSE GCD(b, a % b)
Rat(n, d) == LET g == GCD(n, d) IN <<n \div g, d \div g>>
ZeroRat == Rat(0, 1)
RatAdd(x, y) == Rat(x[1] * y[2] + y[1] * x[2], x[2] * y[2])
RatMul(x, y) == Rat(x[1] * y[1], x[2] * y[2])
RatQuo(x, y) == Rat(x[1] * y[2], x[2] * y[1])

RECURSIVE Pow2(_)
Pow2(k) == IF k = 0 THEN 1 ELSE 2 * Pow2(k - 1)

\* The significand of the floating point numbers, in bits (53 for a float64;
\* a quotient of small integers is exact at every width above a few bits or
\* at none).
MantissaBits == 8

\* The least k that brings a * 2^k / b to a full significand.
RECURSIVE Shift(_, _, _)
Shift(a, b, k) ==
    IF a * Pow2(k) >= b * Pow2(MantissaBits - 1) THEN k ELSE Shift(a, b, k + 1)

\* float64(a) / float64(b) for positive integers with a / b < 2^MantissaBits:
\* the quotient rounded to the nearest float, ties to even, as the exact
\* value big.Rat's SetFloat64 yields.
FloatQuo(a, b) ==
    LET k == Shift(a, b, 0)
        scaled == a * Pow2(k)
        q == scaled \div b
        r == scaled % b
        up == 2 * r > b \/ (2 * r = b /\ q % 2 = 1)
    IN Rat(IF up THEN q + 1 ELSE q, Pow2(k))

\* --------------------------------------------------------- difficulty info
\* DifficultyInfo.difficulty, the pool difficulty of the endpoint, and
\* ClientConfig.NonceIterations, a float64 holding a whole number.
Difficulty == Rat(3, 1)
NonceIterations == 4

\* DifficultyInfo.target, the pool target of the endpoint.  Hash values and
\* targets are small integers standing for the 256-bit numbers.
PoolTarget == 2
HashValues == 1..3

\* Jobs other connections of the pool persisted before this client connected,
\* each with the network target its header's Bits expand to
\* (standalone.CompactToBig); JobZero carries a target that is not positive
\* and JobMissing is in no database.
JobOne == <<"pool", 1>>
JobZero == <<"pool", 2>>
JobMissing == <<"pool", 3>>
PoolJobs == {JobOne, JobZero}
\* NewJob's UUID for the k-th job this client persists.
JobUUID(k) == <<"client", k>>
JobTarget(job) == IF job = JobZero THEN 0 ELSE 1

\* What cfg.FetchCurrentWork returns: "" while the pool has no work, else
\* the hex encoded header of the current work.
CurrentWorks == {"", "work"}

\* ------------------------------------------------------------- hex strings
\* A Go string of hex digits is the sequence of its characters; At and Slice
\* index it from 0 as Go does.
At(str, i) == str[i + 1]
Slice(str, from, to) == SubSeq(str, from + 1, to)
Ok(str) == [ok |-> TRUE, value |-> str]
\* The error return of hexReversed.
NoResult == [ok |-> FALSE, value |-> <<>>]

\* hexReversed's loop, from index i down: in[i-1], in[i], then i -= 2.
RECURSIVE hexReversedFrom(_, _)
hexReversedFrom(in, i) ==
    IF i > -1
    THEN <<At(in, i - 1), At(in, i)>> \o hexReversedFrom(in, i - 2)
    ELSE <<>>

\* hexReversed: an error for an input of odd length, else the byte pairs in
\* reverse order.
hexReversedUnchecked(in) ==
    Ok(IF Len(in) % 2 # 0 THEN <<>> ELSE hexReversedFrom(in, Len(in) - 1))
hexReversed(in) ==
    IF Len(in) % 2 # 0 THEN NoResult ELSE Ok(hexReversedFrom(in, Len(in) - 1))

\* reversePrevBlockWords' loop, from index i up: the four byte pairs of the
\* word at i in reverse order, then i += 8.
RECURSIVE reverseWordsFrom(_, _)
reverseWordsFrom(hashE, i) ==
    IF i < Len(hashE)
    THEN Slice(hashE, i + 6, i + 8) \o Slice(hashE, i + 4, i + 6)
         \o Slice(hashE, i + 2, i + 4) \o Slice(hashE, i, i + 2)
         \o reverseWordsFrom(hashE, i + 8)
    ELSE <<>>

\* reversePrevBlockWords; on a length that is no multiple of 8 a slice runs
\* out of range and the function panics, which NoResult stands for.
reversePrevBlockWords(hashE) ==
    IF Len(hashE) % 8 # 0 THEN NoResult ELSE Ok(reverseWordsFrom(hashE, 0))

\* Two 4-byte words in hex, every digit once, and strings made of such words.
HexWords ==
    {<<"0", "1", "2", "3", "4", "5", "6", "7">>,
     <<"8", "9", "a", "b", "c", "d", "e", "f">>}
RECURSIVE Concat(_)
Concat(words) == IF words = <<>> THEN <<>> ELSE Head(words) \o Concat(Tail(words))

\* --------------------------------------------------------------- messages
NoMsg == [type |-> "none"]

\* A miner numbers its requests: the k-th line of the connection carries id k.
RequestId(k) == k

\* Usernames, as the parts strings.Split(username, ".") yields.
GoodAddress == "SsWKp7wtdTZYabYFYSc9cnxhwFEjA5g4pFc"
Usernames == {<<"onlyaddress">>, <<GoodAddress, "rig1">>, <<"notanaddress", "rig1">>}

\* Request parameters; parses = FALSE is a params array the method's
\* Parse...Request function rejects.
Unparseable == [parses |-> FALSE]
AuthorizeParams == {Unparseable} \cup {[parses |-> TRUE, username |-> u] : u \in Usernames}
SubscribeParams == {Unparseable} \cup {[parses |-> TRUE, nid |-> n] : n \in {"", "n7"}}
\* A submit names a job and yields, with the client's extraNonce1, a solved
\* header (headerOk: GenerateSolvedBlockHeader succeeds) whose block hash,
\* read as a number, is `hash`.
SubmitParams ==
    {Unparseable,
     [parses |-> TRUE, job |-> JobMissing, headerOk |-> TRUE, hash |-> 1],
     [parses |-> TRUE, job |-> JobOne, headerOk |-> FALSE, hash |-> 1],
     [parses |-> TRUE, job |-> JobZero, headerOk |-> TRUE, hash |-> 3],
     [parses |-> TRUE, job |-> JobUUID(1), headerOk |-> TRUE, hash |-> 2]}
    \cup {[parses |-> TRUE, job |-> JobOne, headerOk |-> TRUE, hash |-> h] : h \in HashValues}

Request(method, id, params) ==
    [type |-> RequestMessage, method |-> method, id |-> id, params |-> params]

\* What the reader can decode from one line of the socket.
AuthorizeRequests(i) == {Request(Authorize, i, p) : p \in AuthorizeParams}
SubscribeRequests(i) == {Request(Subscribe, i, p) : p \in SubscribeParams}
SubmitRequests(i) == {Request(Submit, i, p) : p \in SubmitParams}
OtherMessages(i) ==
    {Request("mining.extranonce.subscribe", i, Unparseable),
     [type |-> ResponseMessage, id |-> i],
     [type |-> NotificationMessage]}
Inbound(i) ==
    AuthorizeRequests(i) \cup SubscribeRequests(i) \cup SubmitRequests(i)
    \cup OtherMessages(i)

\* Outgoing messages.  `origin` tells where a message comes from: the number
\* of the inbound message the processor was handling when it built it (0 or
\* less: not the processor) and, for a work notification, the method of that
\* message and what the processor had handed to the sender for it before.
AuthorizeResponse(id, result, err, origin) ==
    [type |-> ResponseMessage, method |-> Authorize, id |-> id,
     result |-> result, error |-> err, origin |-> origin]
SubscribeResponse(id, nid, extraNonce1, extraNonce2Size, err, origin) ==
    [type |-> ResponseMessage, method |-> Subscribe, id |-> id,
     result |-> (err = NoError),
     details |-> <<nid, extraNonce1, extraNonce2Size>>, error |-> err, origin |-> origin]
SubmitWorkResponse(id, result, err, origin) ==
    [type |-> ResponseMessage, method |-> Submit, id |-> id,
     result |-> result, error |-> err, origin |-> origin]
SetDifficultyNotification(origin) ==
    [type |-> RequestMessage, method |-> SetDifficulty, origin |-> origin]
\* WorkNotification: the params of a mining.notify are the job id and the
\* fields of the work, kept together in `work`.
WorkFields(prevBlock, genTx1, genTx2, blockVersion, nBits, nTime, cleanJob) ==
    [prevBlock |-> prevBlock, genTx1 |-> genTx1, genTx2 |-> genTx2,
     blockVersion |-> blockVersion, nBits |-> nBits, nTime |-> nTime,
     cleanJob |-> cleanJob]
WorkNotification(jobID, work, origin) ==
    [type |-> RequestMessage, method |-> Notify, job |-> jobID, work |-> work,
     origin |-> origin]

\* The fields updateWork slices out of the timestamp-rolled current work:
\* prevBlock is 64 digits, nBits and nTime are 8 each; the transactions and
\* the version are not rewritten by anything and are kept symbolic.
RolledPrevBlock ==
    LET a == <<"0", "1", "2", "3", "4", "5", "6", "7">>
        b == <<"8", "9", "a", "b", "c", "d", "e", "f">>
    IN a \o b \o b \o a \o a \o a \o b \o b
RolledWork ==
    WorkFields(RolledPrevBlock, "genTx1", "genTx2", "version",
               <<"1", "c", "0", "0", "f", "f", "f", "f">>,
               <<"5", "e", "3", "2", "a", "1", "b", "0">>, TRUE)
Origin(no, method, prior) == [no |-> no, method |-> method, prior |-> prior]

IsRequest(m) == m.type = RequestMessage
IsResponse(m) == m.type = ResponseMessage
IsNotify(m) == IsRequest(m) /\ m.method = Notify

\* ------------------------------------------------------------------ state
VARIABLES
    cfg,          \* ClientConfig: SoloPool, the miner FetchMiner returns,
                  \* ActiveNet, the work FetchCurrentWork returns
    authorized, subscribed, submissions, name, account,
    hashRate,     \* a big.Rat, <<numerator, denominator>> in lowest terms
    cancelled,    \* ctx.Done() is closed
    wg,           \* c.wg counter
    runPc, removed,
    readerPc, nread,
    procPc, cur, allowed, out, cont, reqNo,
    senderPc, msg, sAuthorized,
    monPc, sample,
    accounts, jobs, works,   \* the pool database: what account.Create
                  \* persisted, in order, the Job keys, the AcceptedWork keys
    shares,       \* the Share records persisted for the message being handled
                  \* (the client writes the share bucket and never reads it)
    submitCalls,  \* calls of cfg.SubmitWork for the message being handled
    poolNotifies, \* notifications offered on ch by the rest of the pool
    handed,       \* history: the kinds of message handed to the sender for cur
    wire,         \* history: the mining.notify the sender's last step wrote, if any
    credited,     \* history: increments of submissions
    sampled,      \* history: the sum of the samples folded into hashRate
    hexIn, hexFn, hexN, hexOut,  \* a hex string, the function applied to it,
                  \* how many times, and what the last application returned
    workIn, workOut  \* a mining.notify and what the miner's handler made of it

clientVars == <<authorized, subscribed, submissions, name, account, hashRate>>
taskVars == <<cancelled, wg, runPc, removed>>
readerVars == <<readerPc, nread>>
procVars == <<procPc, cur, allowed, out, cont, reqNo>>
senderVars == <<senderPc, msg, sAuthorized>>
monVars == <<monPc, sample>>
dbVars == <<accounts, shares, jobs, works, submitCalls>>
histVars == <<handed, wire, credited, sampled, poolNotifies>>
hexVars == <<hexIn, hexFn, hexN, hexOut, workIn, workOut>>
vars == <<cfg, clientVars, taskVars, readerVars, procVars, senderVars, monVars,
          dbVars, histVars, hexVars>>

\* No hex string is being converted and no notification rewritten.
NotRewritten == [cancel |-> FALSE, emit |-> NoMsg]
HexIdle ==
    /\ hexIn = <<>> /\ hexFn = "none" /\ hexN = 0 /\ hexOut = NoResult
    /\ workIn = NoMsg /\ workOut = NotRewritten

\* NewClient: the client after construction, before run.
NewClient ==
    /\ cfg \in [SoloPool : BOOLEAN, miner : Miners, net : Networks,
                 CurrentWork : CurrentWorks]
    /\ authorized = FALSE /\ subscribed = FALSE /\ submissions = 0
    /\ name = <<>> /\ account = ""
    /\ hashRate = ZeroRat
    /\ cancelled = FALSE /\ wg = 0 /\ runPc = "new" /\ removed = 0
    /\ readerPc = "new" /\ nread = 0
    /\ procPc = "new" /\ cur = NoMsg /\ allowed = TRUE /\ out = NoMsg
    /\ cont = "select" /\ reqNo = 0
    /\ senderPc = "new" /\ msg = NoMsg /\ sAuthorized = FALSE
    /\ monPc = "new" /\ sample = 0
    /\ accounts = <<>> /\ shares = <<>> /\ jobs = PoolJobs /\ works = {}
    /\ submitCalls = 0 /\ poolNotifies = 0
    /\ handed = <<>> /\ wire = NoMsg
    /\ credited = 0 /\ sampled = 0

\* The client of a pool that has work: without work updateWork does what it
\* does when its job cannot be created.
Init == NewClient /\ HexIdle /\ cfg.CurrentWork = "work"

\* ------------------------------------------------------------- supervisor
\* run: endpointWg.Add(1), go c.read(), c.wg.Add(3), go process/send/hashMonitor.
RunStart ==
    /\ runPc = "new"
    /\ runPc' = "wait"
    /\ wg' = 3
    /\ readerPc' = "read" /\ procPc' = "select"
    /\ senderPc' = "select" /\ monPc' = "select"
    /\ UNCHANGED <<hexVars, cfg, clientVars, cancelled, removed, nread, cur,
                   allowed, out, cont, reqNo, msg, sAuthorized, sample, dbVars,
                   histVars>>

\* c.wg.Wait() has returned when the counter is zero.
WaitReturnedEarly == wg <= 1
WaitReturned == wg = 0

\* run: c.wg.Wait(), then c.shutdown() (cfg.RemoveClient) and endpointWg.Done().
RunShutdown ==
    /\ runPc = "wait"
    /\ WaitReturned
    /\ removed' = removed + 1
    /\ runPc' = "done"
    /\ UNCHANGED <<hexVars, cfg, clientVars, cancelled, wg, readerVars, procVars,
                   senderVars, monVars, dbVars, histVars>>

\* ------------------------------------------------------------------ reader
\* read: one pass of the loop up to the forward.  SetDeadline failing, EOF, a
\* read error, the 4 minute timeout and IdentifyMessage failing all cancel
\* the client and return; otherwise a decoded message is to be forwarded.
\* Nothing reads the message before the processor receives it, so what it
\* decoded to is drawn there, from Inbound.
ReaderRead ==
    /\ readerPc = "read"
    /\ \/ /\ cancelled' = TRUE
          /\ readerPc' = "done"
          /\ UNCHANGED nread
       \/ /\ nread < MaxMsgs
          /\ nread' = nread + 1
          /\ readerPc' = "forward"
          /\ UNCHANGED cancelled
    /\ UNCHANGED <<hexVars, cfg, clientVars, wg, runPc, removed, procVars, senderVars,
                   monVars, dbVars, histVars>>

\* ---------------------------------------------------------------- processor
\* process: case <-ctx.Done() of the select.
ProcExit ==
    /\ procPc = "select"
    /\ cancelled
    /\ procPc' = "done"
    /\ wg' = wg - 1
    /\ UNCHANGED <<hexVars, cfg, clientVars, cancelled, runPc, removed, readerVars, cur,
                   allowed, out, cont, reqNo, senderVars, monVars, dbVars,
                   histVars>>

\* process: case payLoad := <-c.readCh, the rendezvous with the reader's
\* c.readCh <- readPayload{msg, reqType}: the reader goes on to its next
\* read, the processor holds message m.
CanReceive == procPc = "select" /\ readerPc = "forward"
Receive(m) ==
    /\ CanReceive
    /\ readerPc' = "read"
    /\ cur' = m
    /\ reqNo' = reqNo + 1

\* process: an unknown request method, a Response (c.req holds no method for
\* any id, and the other branch cancels too), or an unknown message type:
\* cancel and continue.  cur keeps the message until the next one is taken.
CancelledAfterRejectKept == cancelled
CancelledAfterReject == TRUE
ProcReject ==
    /\ CanReceive
    /\ \E m \in OtherMessages(RequestId(reqNo + 1)) : Receive(m)
    /\ cancelled' = CancelledAfterReject
    /\ UNCHANGED <<hexVars, cfg, clientVars, wg, runPc, removed, nread, procPc, allowed,
                   out, cont, senderVars, monVars, dbVars, histVars>>

\* - - - - - - - - - - - - - - - - - - - - - - - - - - - - - - - - authorize
\* AccountID(address, net): "" stands for its error.
AccountID(address) == IF address = GoodAddress THEN "account-SsWKp7" ELSE ""

\* What the storage calls of the authorize handler can report.
AccountStoreOutcomes == {"ok", "fetchError", "newAccountError", "createError"}

\* handleAuthorizeRequest leaves by one of its error returns.
AuthorizeFailsUnlimited(req, lim, store) ==
    \/ ~req.params.parses
    \/ /\ ~cfg.SoloPool
       /\ \/ Len(req.params.username) # 2
          \/ AccountID(req.params.username[1]) = ""
          \/ store # "ok"
AuthorizeFails(req, lim, store) ==
    \/ ~lim
    \/ ~req.params.parses
    \/ /\ ~cfg.SoloPool
       /\ \/ Len(req.params.username) # 2
          \/ AccountID(req.params.username[1]) = ""
          \/ store # "ok"

\* The id a handler copies into its response (*req.ID).
ResponseIdFixed(req) == RequestId(1)
ResponseId(req) == req.id

\* c.authorized when handleAuthorizeRequest returns.
AuthorizedAfterClearing(fails) == ~fails
AuthorizedAfterAlways(fails) == TRUE
AuthorizedAfter(fails) == IF fails THEN authorized ELSE TRUE

\* Where process continues once the authorize response is handed over.
AfterAuthorizeSkipping == "updateWork"
AfterAuthorize == "setDifficulty"

\* process, for mining.authorize: cfg.WithinLimit, then
\* handleAuthorizeRequest up to its c.ch <- resp.
HandleAuthorizeRequest ==
    /\ CanReceive
    /\ \E m \in AuthorizeRequests(RequestId(reqNo + 1)), lim \in BOOLEAN, store \in AccountStoreOutcomes :
        LET fails == AuthorizeFails(m, lim, store) IN
        /\ Receive(m)
        /\ allowed' = lim
        /\ authorized' = AuthorizedAfter(fails)
        /\ IF fails
           THEN /\ out' = AuthorizeResponse(ResponseId(m), FALSE, Unknown, reqNo + 1)
                /\ UNCHANGED <<name, account, accounts>>
           ELSE /\ out' = AuthorizeResponse(ResponseId(m), TRUE, NoError, reqNo + 1)
                /\ IF cfg.SoloPool
                   THEN /\ name' = m.params.username
                        /\ UNCHANGED <<account, accounts>>
                   ELSE /\ account' = AccountID(m.params.username[1])
                        /\ name' = <<m.params.username[2]>>
                        /\ accounts' = Append(accounts, AccountID(m.params.username[1]))
    /\ procPc' = "send"
    /\ cont' = AfterAuthorize
    /\ UNCHANGED <<hexVars, cfg, subscribed, submissions, hashRate, taskVars, nread,
                   senderVars, monVars, shares, jobs, works, submitCalls,
                   histVars>>

\* setDifficulty, up to its c.ch <- diffNotif.
SetDifficultyStep ==
    /\ procPc = "setDifficulty"
    /\ out' = SetDifficultyNotification(reqNo)
    /\ procPc' = "send"
    /\ cont' = "updateWork"
    /\ UNCHANGED <<hexVars, cfg, clientVars, taskVars, readerVars, cur, allowed, reqNo,
                   senderVars, monVars, dbVars, histVars>>

\* - - - - - - - - - - - - - - - - - - - - - - - - - - - - - - - - subscribe
\* The subscription id: the client's, or "mn" ++ extraNonce1.
SubscriptionId(nid) == IF nid = "" THEN <<"mn", ExtraNonce1>> ELSE <<nid>>

\* The extraNonce1 of the subscribe response, <<zeros, extraNonce1>> for
\* strings.Repeat("0", zeros) + c.extraNonce1, and the extraNonce2 size.
SubscribeDetails(miner, nid) ==
    CASE miner \in {AntminerDR3, AntminerDR5} -> <<nid, <<16, ExtraNonce1>>, 8>>
      [] miner = WhatsminerD1 -> <<nid, <<8, ExtraNonce1>>, ExtraNonce2Size>>
      [] OTHER -> <<nid, <<0, ExtraNonce1>>, ExtraNonce2Size>>

SubscribeFails(req, lim) == ~lim \/ ~req.params.parses

\* c.subscribed when handleSubscribeRequest reaches its c.ch <- resp.
SubscribedBeforeResponseSet(fails) == subscribed \/ ~fails
SubscribedBeforeResponse(fails) == subscribed

\* process, for mining.subscribe: cfg.WithinLimit, then
\* handleSubscribeRequest up to its c.ch <- resp.
HandleSubscribeRequest ==
    /\ CanReceive
    /\ \E m \in SubscribeRequests(RequestId(reqNo + 1)), lim \in BOOLEAN :
        /\ Receive(m)
        /\ allowed' = lim
        /\ IF SubscribeFails(m, lim)
           THEN /\ out' = SubscribeResponse(ResponseId(m), <<>>, <<0, "">>, 0,
                                            Unknown, reqNo + 1)
                /\ cont' = "select"
           ELSE LET d == SubscribeDetails(cfg.miner, SubscriptionId(m.params.nid)) IN
                /\ out' = SubscribeResponse(ResponseId(m), d[1], d[2], d[3],
                                            NoError, reqNo + 1)
                /\ cont' = "setSubscribed"
        /\ subscribed' = SubscribedBeforeResponse(SubscribeFails(m, lim))
    /\ procPc' = "send"
    /\ UNCHANGED <<hexVars, cfg, authorized, submissions, name, account, hashRate,
                   taskVars, nread, senderVars, monVars, dbVars, histVars>>

\* handleSubscribeRequest after the response is handed over: c.subscribed = true.
SetSubscribed ==
    /\ procPc = "setSubscribed"
    /\ subscribed' = TRUE
    /\ procPc' = "select"
    /\ cur' = NoMsg /\ allowed' = TRUE /\ handed' = <<>>
    /\ UNCHANGED <<hexVars, cfg, authorized, submissions, name, account, hashRate,
                   taskVars, readerVars, out, cont, reqNo, senderVars,
                   monVars, dbVars, wire, credited, sampled, poolNotifies>>

\* - - - - - - - - - - - - - - - - - - - - - - - - - - - - - - - - - submit
\* hashTarget.Cmp(diffInfo.target) > 0: the work is below the pool difficulty.
BelowPoolDifficultyLax(hash) == hash > PoolTarget + 1
BelowPoolDifficulty(hash) == hash > PoolTarget

\* hashTarget.Cmp(target) > 0: the work does not solve the network block.
BelowNetworkDifficulty(hash, target) == hash > target

\* claimWeightedShare: the Share it builds, or none for a cpu miner on mainnet.
ClaimsNoShare == cfg.net = MainNet /\ cfg.miner = CPU
NewShareUnweighted == [account |-> account, weight |-> ShareWeights(CPU)]
NewShare == [account |-> account, weight |-> ShareWeights(cfg.miner)]

\* work.Create reports ErrWorkExists: an AcceptedWork with that block hash is
\* in the database.
WorkExistsNever(hash) == FALSE
WorkExists(hash) == hash \in works

\* The error returns of handleSubmitWorkRequest before any accounting.
SubmitInvalid(req, lim) ==
    \/ ~lim
    \/ ~req.params.parses
    \/ req.params.job \notin jobs
    \/ ~req.params.headerOk
    \/ JobTarget(req.params.job) <= 0

\* process, for mining.submit: cfg.WithinLimit, then handleSubmitWorkRequest
\* up to its c.ch <- resp, or to its return on the path that sends nothing.
\* shareErr: share.Create fails; bytesErr: header.Bytes fails; upstream: what
\* cfg.SubmitWork returns; workErr: work.Create fails for a reason other than
\* ErrWorkExists.
HandleSubmitWorkRequest ==
    /\ CanReceive
    /\ \E m \in SubmitRequests(RequestId(reqNo + 1)), lim \in BOOLEAN, shareErr \in BOOLEAN,
          bytesErr \in BOOLEAN, workErr \in BOOLEAN,
          upstream \in {"accepted", "rejected", "error"} :
        LET Reply(result, err) ==
                /\ out' = SubmitWorkResponse(ResponseId(m), result, err, reqNo + 1)
                /\ procPc' = "send"
                /\ cont' = "updateWork"
        IN
        /\ Receive(m)
        /\ allowed' = lim
        /\ IF SubmitInvalid(m, lim)
           THEN /\ Reply(FALSE, Unknown)
                /\ UNCHANGED <<submissions, credited, shares, works, submitCalls>>
           ELSE IF BelowPoolDifficulty(m.params.hash)
           THEN /\ Reply(FALSE, LowDifficultyShare)
                /\ UNCHANGED <<submissions, credited, shares, works, submitCalls>>
           ELSE
           /\ submissions' = submissions + 1
           /\ credited' = credited + 1
           /\ IF ~cfg.SoloPool /\ ~ClaimsNoShare /\ shareErr
              THEN /\ Reply(FALSE, Unknown)
                   /\ UNCHANGED <<shares, works, submitCalls>>
              ELSE
              /\ shares' = IF ~cfg.SoloPool /\ ~ClaimsNoShare
                           THEN Append(shares, NewShare) ELSE shares
              /\ IF BelowNetworkDifficulty(m.params.hash, JobTarget(m.params.job))
                 THEN /\ Reply(TRUE, NoError)
                      /\ UNCHANGED <<works, submitCalls>>
                 ELSE IF bytesErr
                 THEN /\ Reply(FALSE, Unknown)
                      /\ UNCHANGED <<works, submitCalls>>
                 ELSE
                 /\ submitCalls' = submitCalls + 1
                 /\ CASE upstream = "error" ->
                           /\ Reply(FALSE, Unknown)
                           /\ UNCHANGED works
                      [] upstream = "rejected" ->
                           /\ Reply(FALSE, NoError)
                           /\ UNCHANGED works
                      [] upstream = "accepted" /\ WorkExists(m.params.hash) ->
                           /\ Reply(FALSE, DuplicateShare)
                           /\ UNCHANGED works
                      [] upstream = "accepted" /\ ~WorkExists(m.params.hash) /\ workErr ->
                           /\ Reply(FALSE, Unknown)
                           /\ UNCHANGED works
                      [] OTHER ->
                           /\ works' = works \cup {m.params.hash}
                           /\ procPc' = "updateWork"
                           /\ UNCHANGED <<out, cont>>
    /\ UNCHANGED <<hexVars, cfg, authorized, subscribed, name, account, hashRate, taskVars,
                   nread, senderVars, monVars, accounts, jobs, handed, wire,
                   sampled, poolNotifies>>

\* - - - - - - - - - - - - - - - - - - - - - - - - - - - - - - -  updateWork
\* updateWork returns before fetching the current work.
UpdateWorkSkipsUnlimited == ~subscribed \/ ~authorized
UpdateWorkSkips == ~subscribed \/ ~authorized \/ ~allowed

FetchCurrentWork == cfg.CurrentWork

\* The case c.ch <- workNotif of updateWork's select can be taken: the sender
\* waits in its own select.
SenderReadyAlways == TRUE
SenderReady == senderPc = "select"

\* updateWork returns, offering nothing, when NewJob or job.Create reports
\* an error.
JobErrorIgnored(jobErr) == FALSE
JobErrorReturns(jobErr) == jobErr

\* updateWork, whole: its send is the non-blocking select, which hands the
\* notification over only to a sender waiting in its own select, and may find
\* a sender that has reached its loop but is not yet parked.  jobErr: NewJob
\* or job.Create fails.
UpdateWork ==
    /\ procPc = "updateWork"
    /\ procPc' = "select"
    /\ cur' = NoMsg /\ allowed' = TRUE /\ handed' = <<>>
    /\ \/ /\ UpdateWorkSkips
          /\ UNCHANGED <<jobs, senderPc, msg, wire>>
       \/ /\ ~UpdateWorkSkips
          /\ \E jobErr \in BOOLEAN :
              IF FetchCurrentWork = "" \/ JobErrorReturns(jobErr)
              THEN UNCHANGED <<jobs, senderPc, msg, wire>>
              ELSE LET uuid == JobUUID(Cardinality(jobs \ PoolJobs) + 1)
                       workNotif ==
                           WorkNotification(uuid, RolledWork,
                                            Origin(reqNo, cur.method, handed))
                   IN
                   /\ jobs' = IF jobErr THEN jobs ELSE jobs \cup {uuid}
                   /\ \/ /\ SenderReady
                         /\ senderPc' = "handle"
                         /\ msg' = workNotif
                         /\ wire' = NoMsg
                      \/ UNCHANGED <<senderPc, msg, wire>>
    /\ shares' = <<>> /\ submitCalls' = 0
    /\ UNCHANGED <<hexVars, cfg, clientVars, taskVars, readerVars, out, cont, reqNo,
                   sAuthorized, monVars, accounts, works, credited, sampled, poolNotifies>>

\* - - - - - - - - - - - - - - - - - - - - - - - - - - - - - - - - - c.ch
\* A blocking c.ch <- m of the processor meeting the sender's msg := <-c.ch.
\* A Response, and a request other than mining.notify, the sender encodes as
\* it is and waits again (encodeErr: Encode fails, which cancels the client);
\* a mining.notify it holds for its checks.
ChSend ==
    /\ procPc = "send"
    /\ senderPc = "select"
    /\ IF IsNotify(out)
       THEN /\ msg' = out
            /\ senderPc' = "handle"
            /\ UNCHANGED cancelled
       ELSE /\ \E encodeErr \in BOOLEAN : cancelled' = (cancelled \/ encodeErr)
            /\ UNCHANGED <<msg, senderPc>>
    /\ out' = NoMsg
    /\ procPc' = cont
    /\ cont' = "select"
    /\ IF cont = "select"
       THEN cur' = NoMsg /\ allowed' = TRUE /\ handed' = <<>>
       ELSE /\ handed' = Append(handed, IF IsResponse(out) THEN ResponseMessage ELSE out.method)
            /\ UNCHANGED <<cur, allowed>>
    /\ wire' = NoMsg
    /\ UNCHANGED <<hexVars, cfg, clientVars, wg, runPc, removed, readerVars, reqNo,
                   sAuthorized, monVars, dbVars, credited, sampled, poolNotifies>>

\* ------------------------------------------------------------------ sender
\* send: case <-ctx.Done() of the select.
SenderExit ==
    /\ senderPc = "select"
    /\ cancelled
    /\ senderPc' = "done"
    /\ wg' = wg - 1
    /\ wire' = NoMsg
    /\ UNCHANGED <<hexVars, cfg, clientVars, cancelled, runPc, removed, readerVars,
                   procVars, msg, sAuthorized, monVars, dbVars, handed, credited, sampled,
                   poolNotifies>>

\* send, for a mining.notify: authorized is read under authorizedMtx.
SenderReadAuthorized ==
    /\ senderPc = "handle"
    /\ IsNotify(msg)
    /\ sAuthorized' = authorized
    /\ senderPc' = "notify"
    /\ UNCHANGED <<hexVars, cfg, clientVars, taskVars, readerVars, procVars, msg, monVars,
                   dbVars, histVars>>

\* What a work handler of the sender ends with: the request it encodes, or
\* a cancel with nothing encoded.
Emit(req) == [cancel |-> FALSE, emit |-> req]
CancelWork == [cancel |-> TRUE, emit |-> NoMsg]

\* handleCPUWork: the request as it came.
handleCPUWork(req) == Emit(req)

\* handleAntminerDR3Work: nBits and nTime through hexReversed, an error of
\* which cancels, prevBlock through reversePrevBlockWords, the other fields
\* of the parsed request as they are.
handleAntminerDR3Work(req) ==
    LET nBits == hexReversed(req.work.nBits)
        nTime == hexReversed(req.work.nTime)
        prevBlockRev == reversePrevBlockWords(req.work.prevBlock).value
    IN IF ~nBits.ok \/ ~nTime.ok
       THEN CancelWork
       ELSE Emit(WorkNotification(req.job,
                     WorkFields(prevBlockRev, req.work.genTx1, req.work.genTx2,
                                req.work.blockVersion, nBits.value, nTime.value,
                                req.work.cleanJob),
                     req.origin))

\* handleInnosiliconD9Work: the same steps as for the Antminers.
handleInnosiliconD9Work(req) ==
    LET nBits == hexReversed(req.work.nBits)
        nTime == hexReversed(req.work.nTime)
        prevBlockRev == reversePrevBlockWords(req.work.prevBlock).value
    IN IF ~nBits.ok \/ ~nTime.ok
       THEN CancelWork
       ELSE Emit(WorkNotification(req.job,
                     WorkFields(prevBlockRev, req.work.genTx1, req.work.genTx2,
                                req.work.blockVersion, nBits.value, nTime.value,
                                req.work.cleanJob),
                     req.origin))

\* handleWhatsminerD1Work: prevBlock through reversePrevBlockWords only.
handleWhatsminerD1WorkReversing(req) == handleAntminerDR3Work(req)
handleWhatsminerD1Work(req) ==
    LET prevBlockRev == reversePrevBlockWords(req.work.prevBlock).value
    IN Emit(WorkNotification(req.job,
                WorkFields(prevBlockRev, req.work.genTx1, req.work.genTx2,
                           req.work.blockVersion, req.work.nBits, req.work.nTime,
                           req.work.cleanJob),
                req.origin))

\* send: switch c.cfg.FetchMiner(), whose default case cancels.
MinerWork(miner, req) ==
    CASE miner = CPU -> handleCPUWork(req)
      [] miner \in {AntminerDR3, AntminerDR5} -> handleAntminerDR3Work(req)
      [] miner = InnosiliconD9 -> handleInnosiliconD9Work(req)
      [] miner = WhatsminerD1 -> handleWhatsminerD1Work(req)
      [] OTHER -> CancelWork

\* Only send work to authorized and subscribed clients.
MaySendWorkEither(isAuthorized, isSubscribed) == isAuthorized \/ isSubscribed
MaySendWork(isAuthorized, isSubscribed) == isAuthorized /\ isSubscribed

\* send, for a mining.notify: subscribed is read under subscribedMtx, the
\* notification is dropped unless both flags were set, and otherwise written
\* by the handler of the miner; a miner the switch does not know, a field
\* hexReversed rejects, and an encoding error, cancel the client.
SenderNotify ==
    /\ senderPc = "notify"
    /\ IF ~MaySendWork(sAuthorized, subscribed)
       THEN UNCHANGED <<wire, cancelled>>
       ELSE IF MinerWork(cfg.miner, msg).cancel
       THEN /\ cancelled' = TRUE
            /\ UNCHANGED wire
       ELSE \/ /\ wire' = MinerWork(cfg.miner, msg).emit
               /\ UNCHANGED cancelled
            \/ /\ cancelled' = TRUE
               /\ UNCHANGED wire
    /\ senderPc' = "select"
    /\ msg' = NoMsg
    /\ sAuthorized' = FALSE
    /\ UNCHANGED <<hexVars, cfg, clientVars, wg, runPc, removed, readerVars, procVars,
                   monVars, dbVars, handed, credited, sampled, poolNotifies>>

\* ------------------------------------------------------------ hash monitor
\* hashMonitor: case <-ctx.Done() of the select.
MonitorExit ==
    /\ monPc = "select"
    /\ cancelled
    /\ monPc' = "done"
    /\ wg' = wg - 1
    /\ UNCHANGED <<hexVars, cfg, clientVars, cancelled, runPc, removed, readerVars,
                   procVars, senderVars, sample, dbVars, histVars>>

\* hashMonitor: case <-ticker.C, atomic.LoadInt64(&c.submissions); a zero
\* sample skips the tick.
MonitorTick ==
    /\ monPc = "select"
    /\ IF submissions = 0
       THEN UNCHANGED <<monPc, sample>>
       ELSE /\ sample' = submissions
            /\ monPc' = "store"
    /\ UNCHANGED <<hexVars, cfg, clientVars, taskVars, readerVars, procVars, senderVars,
                   dbVars, histVars>>

\* hashMonitor: average := float64(hashCalcThreshold) / float64(submissions),
\* hash := difficulty * NonceIterations / average with the average taken as
\* the exact value of the float64.
HashOf(n) ==
    RatQuo(RatMul(Difficulty, Rat(NonceIterations, 1)),
           FloatQuo(hashCalcThreshold, n))

\* hash for each sample a tick can take: at most MaxMsgs submissions are
\* counted.
HashOfSample == [n \in 1..MaxMsgs |-> HashOf(n)]

\* setHashRate: c.hashRate = (c.hashRate + hash) / 2.
setHashRateOverwriting(old, hash) == hash
setHashRate(old, hash) == RatQuo(RatAdd(old, hash), Rat(2, 1))

\* hashMonitor: setHashRate folds the sample into hashRate, then
\* atomic.StoreInt64(&c.submissions, 0).
MonitorStore ==
    /\ monPc = "store"
    /\ hashRate' = setHashRate(hashRate, HashOfSample[sample])
    /\ sampled' = sampled + sample
    /\ submissions' = 0
    /\ monPc' = "select"
    /\ sample' = 0
    /\ UNCHANGED <<hexVars, cfg, authorized, subscribed, name, account, taskVars,
                   readerVars, procVars, senderVars, dbVars, handed, wire,
                   credited, poolNotifies>>

\* -------------------------------------------------------- the rest of pool
\* ch is a field every goroutine of the package holding the client can send
\* on: a work notification of the pool's own, offered while the sender waits.
PoolNotify ==
    /\ runPc = "wait"
    /\ senderPc = "select"
    /\ poolNotifies < MaxPoolNotifies
    /\ poolNotifies' = poolNotifies + 1
    /\ msg' = WorkNotification(JobOne, RolledWork,
                                Origin(0 - poolNotifies, "pool", <<>>))
    /\ senderPc' = "handle"
    /\ wire' = NoMsg
    /\ UNCHANGED <<hexVars, cfg, clientVars, taskVars, readerVars, procVars, sAuthorized,
                   monVars, dbVars, handed, credited, sampled>>

\* --------------------------------------------------------- specifications
Next ==
    \/ RunStart
    \/ RunShutdown
    \/ ReaderRead
    \/ ProcExit
    \/ ProcReject
    \/ HandleAuthorizeRequest
    \/ SetDifficultyStep
    \/ HandleSubscribeRequest
    \/ SetSubscribed
    \/ HandleSubmitWorkRequest
    \/ UpdateWork
    \/ ChSend
    \/ SenderExit
    \/ SenderReadAuthorized
    \/ SenderNotify
    \/ MonitorExit
    \/ MonitorTick
    \/ MonitorStore

\* The client alone: every message on ch comes from its processor.
Spec == Init /\ [][Next]_vars

\* The client inside the pool, whose other goroutines may offer work on ch.
\* The sender reads neither cfg.SoloPool nor cfg.ActiveNet, so one value of
\* each is kept and every miner.
InitInPool == Init /\ ~cfg.SoloPool /\ cfg.net = SimNet
NextInPool == Next \/ PoolNotify
SpecInPool == InitInPool /\ [][NextInPool]_vars

\* The client of a pool with or without work.  Of cfg updateWork reads
\* FetchCurrentWork only, so one value of each other field is kept.
InitAnyWork ==
    /\ NewClient /\ HexIdle
    /\ ~cfg.SoloPool /\ cfg.net = SimNet /\ cfg.miner = CPU
SpecAnyWork == InitAnyWork /\ [][Next]_vars

\* The scheduling the Go runtime gives: every goroutine that can take a step
\* takes one (WF), a select whose case is ready again and again takes that
\* case (SF: the runtime picks among ready cases at random), the ticker and
\* the read deadline keep firing.  What the socket delivers is not constrained.
ProcReceive ==
    ProcReject \/ HandleAuthorizeRequest \/ HandleSubscribeRequest
    \/ HandleSubmitWorkRequest
Fairness ==
    /\ WF_vars(RunStart) /\ WF_vars(RunShutdown)
    /\ WF_vars(ReaderRead)
    /\ SF_vars(ProcExit) /\ SF_vars(ProcReceive)
    /\ WF_vars(SetDifficultyStep) /\ WF_vars(SetSubscribed) /\ WF_vars(UpdateWork)
    /\ SF_vars(ChSend)
    /\ SF_vars(SenderExit) /\ WF_vars(SenderReadAuthorized) /\ WF_vars(SenderNotify)
    /\ SF_vars(MonitorExit) /\ WF_vars(MonitorTick) /\ WF_vars(MonitorStore)

\* One endpoint configuration, for the questions of termination.
InitPoolEndpoint ==
    /\ Init
    /\ cfg = [SoloPool |-> FALSE, miner |-> AntminerDR3, net |-> SimNet,
              CurrentWork |-> "work"]
FairSpec == InitPoolEndpoint /\ [][Next]_vars /\ Fairness

\* ------------------------------------------------------------ hex helpers
\* The strings tried: every string of up to MaxHexLen digits over HexDigits,
\* and every string of WordCounts 8-digit words over HexWords.
MaxHexLen == 5
HexDigits == {"0", "7", "f"}
WordCounts == {4, 8}
HexStrings ==
    UNION {[1..n -> HexDigits] : n \in 0..MaxHexLen}
    \cup {Concat(ws) : ws \in UNION {[1..k -> HexWords] : k \in WordCounts}}

\* One of the two functions is applied to the string, then to its own result.
Apply(fn, result) ==
    /\ hexFn \in {"none", fn}
    /\ hexN < 2
    /\ hexN > 0 => hexOut.ok
    /\ hexFn' = fn
    /\ hexN' = hexN + 1
    /\ hexOut' = result
    /\ UNCHANGED <<hexIn, workIn, workOut, cfg, clientVars, taskVars,
                   readerVars, procVars, senderVars, monVars, dbVars, histVars>>
HexArgument == IF hexN = 0 THEN hexIn ELSE hexOut.value
ApplyHexReversed == Apply("hexReversed", hexReversed(HexArgument))
ApplyReversePrevBlockWords ==
    Apply("reversePrevBlockWords", reversePrevBlockWords(HexArgument))

InitHex ==
    /\ NewClient
    /\ cfg = [SoloPool |-> FALSE, miner |-> AntminerDR3, net |-> SimNet,
              CurrentWork |-> "work"]
    /\ hexIn \in HexStrings /\ hexFn = "none" /\ hexN = 0 /\ hexOut = NoResult
    /\ workIn = NoMsg /\ workOut = NotRewritten
NextHex == ApplyHexReversed \/ ApplyReversePrevBlockWords
SpecHex == InitHex /\ [][NextHex]_vars

\* ---------------------------------------------------------- miner handlers
\* The notifications tried: nBits and nTime are every string of up to
\* MaxFieldLen digits and two of 8 digits, prevBlock is 64 digits as
\* updateWork slices it, cleanJob is either value.
MaxFieldLen == 3
FieldStrings == UNION {[1..n -> HexDigits] : n \in 0..MaxFieldLen} \cup HexWords
PrevBlocks == {Concat(<<a, b, b, a, a, a, b, b>>) : a, b \in HexWords}
Notifications ==
    {WorkNotification(JobOne,
                      WorkFields(prevBlock, "genTx1", "genTx2", "version",
                                 nBits, nTime, cleanJob),
                      Origin(0, "pool", <<>>)) :
        prevBlock \in PrevBlocks, nBits \in FieldStrings,
        nTime \in FieldStrings, cleanJob \in BOOLEAN}

\* The handler of the client's miner is applied to the notification.
ApplyMinerWork ==
    /\ workOut = NotRewritten
    /\ workOut' = MinerWork(cfg.miner, workIn)
    /\ UNCHANGED <<hexIn, hexFn, hexN, hexOut, workIn, cfg, clientVars, taskVars,
                   readerVars, procVars, senderVars, monVars, dbVars, histVars>>

InitWork ==
    /\ NewClient
    /\ ~cfg.SoloPool /\ cfg.net = SimNet /\ cfg.CurrentWork = "work"
    /\ hexIn = <<>> /\ hexFn = "none" /\ hexN = 0 /\ hexOut = NoResult
    /\ workIn \in Notifications /\ workOut = NotRewritten
SpecWork == InitWork /\ [][ApplyMinerWork]_vars

\* ------------------------------------------------------------------ claims
Range(seq) == {seq[i] : i \in DOMAIN seq}

\* The step is the sender's check of a held mining.notify.
SenderChecksNotify == senderPc = "notify" /\ senderPc' = "select"

\* C1: the sender writes a mining.notify to the socket only in its check step
\* and only while authorized and subscribed are both true; a notify it holds
\* while either flag is false is dropped: nothing is written and the client
\* is not cancelled for it.
C1_NotifyOnlyWhenAuthorizedAndSubscribed ==
    [][/\ IsNotify(wire') /\ wire' # wire
          => /\ SenderChecksNotify
             /\ wire' = MinerWork(cfg.miner, msg).emit
             /\ authorized /\ subscribed /\ authorized' /\ subscribed'
       /\ SenderChecksNotify /\ ~(authorized /\ subscribed)
          => /\ wire' = NoMsg
             /\ cancelled' = cancelled]_vars

\* C1 witness: a notification that did not come from updateWork, so that only
\* the sender's check stood between it and the socket, has been written.
C1_Witness == IsNotify(wire) /\ wire.origin.no <= 0

\* C2: authorized and subscribed never go back to false, authorized changes
\* only in the step of the mining.authorize handler and subscribed only in the
\* step of the mining.subscribe handler that follows its response.
C2_FlagsMonotonic ==
    [][/\ authorized => authorized'
       /\ subscribed => subscribed'
       /\ authorized' # authorized
          => procPc = "select" /\ procPc' = "send" /\ cur'.method = Authorize
       /\ subscribed' # subscribed
          => procPc = "setSubscribed" /\ cur.method = Subscribe]_vars

\* C2 witness: the third message is a mining.authorize that fails, handled by
\* a client that is authorized and subscribed already.
C2_Witness ==
    /\ authorized /\ subscribed
    /\ procPc = "send" /\ cur.method = Authorize /\ reqNo = 3
    /\ IsResponse(out) /\ out.result = FALSE

\* C3: while one request is handled at most one Response is handed to the
\* sender, and every Response the processor is about to hand over carries the
\* id of the request being handled.
C3_OneResponseWithRequestId ==
    /\ Cardinality({i \in DOMAIN handed : handed[i] = ResponseMessage}) <= 1
    /\ procPc = "send" /\ IsResponse(out)
       => /\ IsRequest(cur)
          /\ out.id = cur.id
          /\ out.method = cur.method
          /\ ResponseMessage \notin Range(handed)

\* C3 witness: the response to the second request of the connection is about
\* to be handed over.
C3_Witness ==
    /\ procPc = "send" /\ IsResponse(out)
    /\ cur.id = RequestId(2) /\ out.id = RequestId(2)

\* C4: RemoveClient is invoked at most once, and not before the processor,
\* the sender and the hash monitor have all returned.
C4_RemoveOnceAfterJoin ==
    /\ removed <= 1
    /\ removed > 0 => procPc = "done" /\ senderPc = "done" /\ monPc = "done"

\* C4 witness: RemoveClient has been invoked.
C4_Witness == removed = 1 /\ runPc = "done"

\* C5, as claimed: once the cancel signal has fired, the processor, the sender
\* and the hash monitor all terminate and RemoveClient is invoked.
C5_CancelLeadsToRemoval ==
    cancelled ~> (procPc = "done" /\ senderPc = "done" /\ monPc = "done" /\ removed = 1)

\* C6, as claimed: once the cancel signal has fired and the processor has
\* exited, the reader terminates too, it does not stay blocked on readCh.
C6_ReaderTerminates ==
    (cancelled /\ procPc = "done") ~> (readerPc = "done")

\* What the processor hands over for a mining.authorize, in order.
AuthorizeOrder == <<ResponseMessage, SetDifficulty>>
IsPrefix(a, b) == Len(a) <= Len(b) /\ \A i \in DOMAIN a : a[i] = b[i]

\* C7: for a mining.authorize (the successful ones included) the sender gets
\* the Response first, then mining.set_difficulty, and the mining.notify of
\* its updateWork only after both: every such notify the sender holds or has
\* written was offered after the Response and the set_difficulty, in that order.
C7_AuthorizeOrdering ==
    /\ IsRequest(cur) /\ cur.method = Authorize
       => /\ IsPrefix(handed, AuthorizeOrder)
          /\ procPc = "updateWork" => handed = AuthorizeOrder
    /\ \A n \in {msg, wire} :
         IsNotify(n) /\ n.origin.method = Authorize
            => n.origin.prior = AuthorizeOrder

\* C7 witness: the notify of a successful authorize's updateWork is written.
C7_Witness ==
    /\ IsNotify(wire) /\ wire.origin.method = Authorize
    /\ wire.origin.no = 2 /\ authorized

\* C8, as claimed: no increment of submissions is lost: every credited
\* submission is in the counter or in a sample folded into hashRate.
C8_NoSubmissionLost == credited = sampled + submissions

\* The step is the handler of a mining.submit that was allowed, parsed, found
\* its job and built a solved header with a positive network target.
SubmitValidated ==
    /\ procPc = "select" /\ procPc' # "select"
    /\ IsRequest(cur') /\ cur'.method = Submit
    /\ allowed'
    /\ cur'.params.parses
    /\ cur'.params.job \in jobs
    /\ cur'.params.headerOk
    /\ JobTarget(cur'.params.job) > 0

\* C9: a validated submit whose hash is above the pool target is answered
\* with a LowDifficultyShare error, result false, and nothing else happens:
\* submissions is unchanged, no Share and no AcceptedWork is persisted,
\* SubmitWork is not called, and the handler returns.
C9_LowDifficultyRejected ==
    [][SubmitValidated /\ cur'.params.hash > PoolTarget
       => /\ procPc' = "send" /\ cont' = "updateWork"
          /\ out' = SubmitWorkResponse(cur'.id, FALSE, LowDifficultyShare, reqNo')
          /\ submissions' = submissions /\ credited' = credited
          /\ shares' = shares /\ works' = works /\ jobs' = jobs
          /\ submitCalls' = submitCalls]_vars

\* C9 witness: the LowDifficultyShare response is about to be handed over.
C9_Witness ==
    /\ procPc = "send" /\ cur.method = Submit
    /\ cur.params.parses /\ cur.params.hash > PoolTarget
    /\ out.error = LowDifficultyShare

\* The step handles a validated submit in pool mode whose hash meets the pool
\* target and not the network target.
PoolShareOnly ==
    /\ SubmitValidated
    /\ ~cfg.SoloPool
    /\ cur'.params.hash <= PoolTarget
    /\ cur'.params.hash > JobTarget(cur'.params.job)

ShareOfClient == [account |-> account, weight |-> ShareWeights(cfg.miner)]
AcceptedResponse == SubmitWorkResponse(cur'.id, TRUE, NoError, reqNo')
UnknownResponse == SubmitWorkResponse(cur'.id, FALSE, Unknown, reqNo')

\* C10, as claimed: for every miner and network such a submit increments
\* submissions, persists exactly one Share of weight ShareWeights[miner] for
\* the client's account, is answered result true, and SubmitWork is not called.
C10_AsClaimed ==
    [][PoolShareOnly
       => /\ submissions' = submissions + 1
          /\ shares' = Append(shares, ShareOfClient)
          /\ procPc' = "send" /\ out' = AcceptedResponse
          /\ submitCalls' = submitCalls]_vars

\* C10, amended: such a submit increments submissions and does not call
\* SubmitWork.  For a cpu miner on mainnet no Share is created and the answer
\* is result true.  For every other miner and network either exactly one
\* Share of weight ShareWeights[miner] is persisted for the client's account
\* and the answer is result true, or persisting the Share fails, none is
\* stored, and the answer is an Unknown error.
C10_PoolShare ==
    [][PoolShareOnly
       => /\ submissions' = submissions + 1
          /\ submitCalls' = submitCalls /\ works' = works
          /\ procPc' = "send"
          /\ IF cfg.net = MainNet /\ cfg.miner = CPU
             THEN shares' = shares /\ out' = AcceptedResponse
             ELSE \/ shares' = Append(shares, ShareOfClient) /\ out' = AcceptedResponse
                  \/ shares' = shares /\ out' = UnknownResponse]_vars

\* C10 witness: an authorized client's Share has been persisted and the
\* result true response is about to be handed over.
C10_Witness ==
    /\ ~cfg.SoloPool /\ authorized /\ account # ""
    /\ procPc = "send" /\ cur.method = Submit
    /\ shares = <<ShareOfClient>>
    /\ out.result = TRUE /\ submitCalls = 0

\* The step handles a validated submit whose hash meets the pool target and
\* the network target.
SolvesBlock ==
    /\ SubmitValidated
    /\ cur'.params.hash <= PoolTarget
    /\ cur'.params.hash <= JobTarget(cur'.params.job)

RejectedResponse == SubmitWorkResponse(cur'.id, FALSE, NoError, reqNo')
DuplicateResponse == SubmitWorkResponse(cur'.id, FALSE, DuplicateShare, reqNo')

\* C11, as claimed: every such submit calls SubmitWork exactly once.
C11_AsClaimed ==
    [][SolvesBlock => submitCalls' = submitCalls + 1]_vars

\* C11, amended: such a submit calls SubmitWork at most once, and exactly once
\* unless it is answered with an Unknown error before the call (the Share or
\* the header bytes could not be produced).  After the call the outcome is
\* one of: an Unknown error (the call or the persistence failed) or a result
\* false without error (rejected upstream), the accepted works unchanged;
\* for a block hash not yet stored, exactly that hash added to the accepted
\* works and no response; for a block hash already stored, a DuplicateShare
\* error and the accepted works unchanged.  A stored hash is never stored
\* again silently.
C11_NetworkSubmission ==
    [][SolvesBlock
       => \/ /\ submitCalls' = submitCalls
             /\ works' = works
             /\ procPc' = "send" /\ out' = UnknownResponse
          \/ /\ submitCalls' = submitCalls + 1
             /\ \/ /\ works' = works
                   /\ procPc' = "send"
                   /\ out' \in {UnknownResponse, RejectedResponse}
                \/ /\ cur'.params.hash \notin works
                   /\ works' = works \cup {cur'.params.hash}
                   /\ procPc' = "updateWork" /\ out' = out
                \/ /\ cur'.params.hash \in works
                   /\ works' = works
                   /\ procPc' = "send" /\ out' = DuplicateResponse]_vars

\* C11 witness: the second submission of a block hash that was accepted and
\* stored is about to be answered with DuplicateShare, after one SubmitWork call.
C11_Witness ==
    /\ procPc = "send" /\ cur.method = Submit /\ cur.params.parses
    /\ cur.params.hash \in works /\ Cardinality(works) = 1
    /\ out.error = DuplicateShare /\ out.id = cur.id
    /\ submitCalls = 1

\* What a handler and the rest of process may change for a request, besides
\* the messages it hands over.
handlerEffects ==
    <<authorized, subscribed, submissions, credited, name, account, accounts,
      shares, works, jobs, submitCalls>>

\* The response to the request the step took is an error of kind err.
ErrorResponseTo(err) ==
    /\ IsResponse(out')
    /\ out'.id = cur'.id /\ out'.method = cur'.method
    /\ out'.result = FALSE /\ out'.error = err

\* C12: when the rate limiter denies a request, the step of the authorize,
\* subscribe or submit handler prepares one Unknown error Response with the
\* request's id and changes nothing else (flags, submissions, name, account,
\* the database, the SubmitWork calls, the cancel signal); and no later step
\* of the processor for that request prepares another Response or a work
\* notification, persists anything or hands a notify to the sender.
C12_RateLimitDenied ==
    [][/\ procPc = "select" /\ IsRequest(cur') /\ ~allowed'
          => /\ procPc' = "send"
             /\ ErrorResponseTo(Unknown)
             /\ UNCHANGED handlerEffects
             /\ UNCHANGED <<cancelled, msg, senderPc>>
       /\ IsRequest(cur) /\ ~allowed /\ procPc' # procPc
          => /\ UNCHANGED handlerEffects
             /\ ~IsResponse(out') /\ ~IsNotify(out')
             /\ UNCHANGED msg
             /\ procPc # "send" => UNCHANGED cancelled]_vars

\* C12 witness: an authorized and subscribed client's submit was denied, its
\* Unknown response is handed over and updateWork is next.
C12_Witness ==
    /\ authorized /\ subscribed
    /\ IsRequest(cur) /\ cur.method = Submit /\ ~allowed
    /\ procPc = "updateWork" /\ handed = <<ResponseMessage>>

StratumMethods == {Authorize, Subscribe, Submit}

\* The step is the processor taking a request of a method it does not
\* handle, or a Response.
TakesStray ==
    /\ reqNo' = reqNo + 1
    /\ \/ IsResponse(cur')
       \/ IsRequest(cur') /\ cur'.method \notin StratumMethods

\* C13: taking a request of another method than authorize, subscribe and
\* submit, or any Response, the processor cancels the client, prepares and
\* hands over no message for it and goes back to its select; authorized,
\* subscribed and submissions are unchanged.
C13_StrayMessageCancels ==
    [][TakesStray
       => /\ cancelled'
          /\ procPc' = "select"
          /\ out' = NoMsg /\ handed' = <<>>
          /\ UNCHANGED <<msg, senderPc>>
          /\ UNCHANGED <<authorized, subscribed, submissions>>]_vars

\* C13 witness: an authorized client sent a Response and was cancelled for it.
C13_Witness ==
    /\ authorized /\ cancelled
    /\ IsResponse(cur) /\ procPc = "select" /\ out = NoMsg

\* The step is the handler of a mining.authorize the rate limiter allowed.
TakesAuthorize ==
    /\ procPc = "select" /\ procPc' # "select"
    /\ IsRequest(cur') /\ cur'.method = Authorize
    /\ allowed'

\* The params do not parse, or in pool mode the username is not
\* address.clientid or its address yields no account id.
BadAuthorizeParams(req) ==
    \/ ~req.params.parses
    \/ /\ ~cfg.SoloPool
       /\ \/ Len(req.params.username) # 2
          \/ AccountID(req.params.username[1]) = ""

\* C14: a mining.authorize that fails, by its params or username or by an
\* error of the account storage, is answered with an Unknown error, result
\* false, under the request's id; authorized, name and account keep their
\* values, no account is persisted and the client is not cancelled.  Bad
\* params or a bad username always fail, and an authorize answered with
\* result true has set authorized.
C14_AuthorizeFailure ==
    [][TakesAuthorize
       => /\ procPc' = "send" /\ IsResponse(out')
          /\ BadAuthorizeParams(cur') => ~out'.result
          /\ ~out'.result
             => /\ ErrorResponseTo(Unknown)
                /\ UNCHANGED <<authorized, name, account, accounts>>
                /\ UNCHANGED cancelled
          /\ out'.result => authorized' /\ out'.error = NoError]_vars

\* C14 witness: in pool mode a username whose address yields no account id
\* is being refused, the client still not authorized.
C14_Witness ==
    /\ ~cfg.SoloPool /\ ~authorized /\ ~cancelled
    /\ procPc = "send" /\ cur.method = Authorize /\ allowed
    /\ cur.params.parses /\ Len(cur.params.username) = 2
    /\ AccountID(cur.params.username[1]) = ""
    /\ out.error = Unknown /\ out.id = cur.id

\* difficulty x NonceIterations x n / hashCalcThreshold, in exact arithmetic.
ExactHash(n) ==
    RatQuo(RatMul(RatMul(Difficulty, Rat(NonceIterations, 1)), Rat(n, 1)),
           Rat(hashCalcThreshold, 1))
Halved(x) == RatQuo(x, Rat(2, 1))

\* a / b is a float exactly: in lowest terms its denominator is a power of
\* two (and its numerator fits the significand, as it does for a <= 20).
IsPow2(d) == \E k \in 0..MantissaBits : d = Pow2(k)
Representable(a, b) == IsPow2(Rat(a, b)[2])

\* The monitor's steps: a tick that samples submissions, the fold of a sample.
MonitorSamples == monPc = "select" /\ monPc' = "store"
MonitorFolds == monPc = "store" /\ monPc' = "select"

\* C15, as claimed: a tick folds only a sample n > 0, and folding it makes
\* hashRate (old + difficulty x NonceIterations x n / hashCalcThreshold) / 2
\* and resets submissions.
C15_AsClaimed ==
    [][/\ MonitorSamples
          => sample' = submissions /\ sample' > 0 /\ UNCHANGED <<hashRate, submissions>>
       /\ MonitorFolds
          => /\ hashRate' = Halved(RatAdd(hashRate, ExactHash(sample)))
             /\ submissions' = 0]_vars

\* C15, amended: hashRate changes and submissions is reset only when a
\* sample is folded, a tick that samples n = 0 folds nothing; a tick folds only
\* a sample n > 0, and folding it makes hashRate (old + computed) / 2 with
\* computed = difficulty x NonceIterations / average, average being the
\* float hashCalcThreshold / n with hashCalcThreshold the constant 20, and
\* sets submissions to 0.  computed is difficulty x NonceIterations x n /
\* hashCalcThreshold exactly when hashCalcThreshold / n is a float without
\* rounding, and differs from it otherwise.
C15_HashRateUpdate ==
    [][/\ hashRate' # hashRate \/ submissions' < submissions => MonitorFolds
       /\ MonitorSamples
          => sample' = submissions /\ sample' > 0 /\ UNCHANGED <<hashRate, submissions>>
       /\ MonitorFolds
          => LET average == FloatQuo(hashCalcThreshold, sample)
                 computed == RatQuo(RatMul(Difficulty, Rat(NonceIterations, 1)), average)
                 claimed == Halved(RatAdd(hashRate, ExactHash(sample)))
             IN
             /\ hashRate' = Halved(RatAdd(hashRate, computed))
             /\ Representable(hashCalcThreshold, sample) <=> hashRate' = claimed
             /\ submissions' = 0]_vars

\* C15 witness: after a first sample of 1 a sample of 2 has been folded, each
\* without rounding, and submissions is reset.
C15_Witness ==
    /\ monPc = "select" /\ submissions = 0 /\ sampled = 3
    /\ hashRate = Halved(RatAdd(Halved(ExactHash(1)), ExactHash(2)))

\* C16: hexReversed returns an error for every input of odd length, and for
\* every input of even length applying it twice gives the input back; applying
\* reversePrevBlockWords twice to a string of 32 digits (and of 64, the
\* length of a previous block hash) gives the string back.
C16_HexInvolutions ==
    /\ hexFn = "hexReversed" /\ Len(hexIn) % 2 = 1 => hexN = 1 /\ ~hexOut.ok
    /\ hexFn = "hexReversed" /\ Len(hexIn) % 2 = 0
       => hexOut.ok /\ (hexN = 2 => hexOut.value = hexIn)
    /\ hexFn = "reversePrevBlockWords" /\ Len(hexIn) \in {32, 64}
       => hexOut.ok /\ (hexN = 2 => hexOut.value = hexIn)

\* C16 witness: reversePrevBlockWords, applied twice to a string of 32
\* digits whose words differ, has given it back.
C16_Witness ==
    /\ hexFn = "reversePrevBlockWords" /\ hexN = 2 /\ Len(hexIn) = 32
    /\ SubSeq(hexIn, 1, 8) # SubSeq(hexIn, 9, 16)
    /\ hexOut.value = hexIn

\* The step is a whole call of updateWork by the processor.
RunsUpdateWork == procPc = "updateWork" /\ procPc' = "select"

\* C17: a call of updateWork for a client that is not both authorized and
\* subscribed, or for a request the rate limiter denied, or finding that
\* FetchCurrentWork returns "", persists no Job and hands no mining.notify to
\* the sender, and changes nothing of the client.
C17_UpdateWorkNoOp ==
    [][/\ RunsUpdateWork
       /\ ~(authorized /\ subscribed) \/ ~allowed \/ FetchCurrentWork = ""
       => UNCHANGED <<jobs, senderPc, msg, clientVars, cancelled>>]_vars

\* C17 witness: the processor is about to call updateWork for an allowed
\* submit of an authorized and subscribed client while the pool has no work,
\* and no job of this client is stored.
C17_Witness ==
    /\ procPc = "updateWork" /\ cur.method = Submit /\ allowed
    /\ authorized /\ subscribed /\ FetchCurrentWork = ""
    /\ reqNo = 3 /\ jobs = PoolJobs

\* C18: the processor never waits in updateWork: the call can always be
\* completed, and when the sender is not waiting for a message the call
\* leaves the sender alone and takes the processor back to its select for the
\* next inbound message.  A Job stays stored, and a mining.notify reaches the
\* sender only in the step that persists its Job, so the Job of a dropped
\* notification is never announced.
C18_NotifyNeverBlocks ==
    /\ [](procPc = "updateWork" => ENABLED UpdateWork)
    /\ [][RunsUpdateWork /\ senderPc # "select" => UNCHANGED senderVars]_vars
    /\ [][jobs \subseteq jobs']_vars
    /\ [][IsNotify(msg') /\ msg' # msg => msg'.job \notin jobs]_vars

\* C18 witness: the client's second Job was persisted while the sender still
\* held the notification of the first, and the processor is back at its select.
C18_Witness ==
    /\ procPc = "select" /\ cur = NoMsg
    /\ JobUUID(2) \in jobs
    /\ senderPc \in {"handle", "notify"} /\ IsNotify(msg) /\ msg.job = JobUUID(1)

\* C19: a mining.authorize that fails, by the rate limiter or by its params
\* or username, leads to no new Job and to no mining.notify handed to the
\* sender, whatever the client's flags are.
C19_FailedAuthorizeUpdatesNoWork ==
    [][/\ RunsUpdateWork
       /\ cur.method = Authorize
       /\ ~allowed \/ BadAuthorizeParams(cur)
       => UNCHANGED <<jobs, msg>>]_vars

\* The Response of a successful mining.subscribe has been handed to the sender.
SubscribeAnswered == subscribed \/ procPc = "setSubscribed"

\* C20: subscribed becomes true only in the processor's step after the
\* Response of a successful mining.subscribe was handed to the sender, and a
\* subscribe is answered only by handing that Response over; so the sender
\* gets a mining.notify of the client's processor, and writes any
\* mining.notify, only after a successful subscribe Response.
C20_SubscribedAfterResponse ==
    /\ [][~subscribed /\ subscribed'
          => /\ procPc = "setSubscribed" /\ cur.method = Subscribe
             /\ handed = <<ResponseMessage>> /\ out = NoMsg]_vars
    /\ [][~SubscribeAnswered /\ SubscribeAnswered'
          => /\ procPc = "send" /\ senderPc = "select"
             /\ IsResponse(out) /\ out.method = Subscribe /\ out.result
             /\ out' = NoMsg]_vars
    /\ [][IsNotify(msg') /\ msg' # msg /\ msg'.origin.no > 0 => subscribed]_vars
    /\ [][IsNotify(wire') /\ wire' # wire => subscribed]_vars

\* C20 witness: for an authorized client the subscribe Response has been
\* handed over, subscribed is still false, and the sender already holds a
\* mining.notify, which its check is about to judge.
C20_Witness ==
    /\ authorized /\ ~subscribed /\ procPc = "setSubscribed"
    /\ senderPc = "notify" /\ IsNotify(msg) /\ sAuthorized

\* C21: in pool mode a successful mining.authorize persists an Account only
\* when none is stored under the account id of its address; when one is
\* stored, no Account is created or written again.
C21_AccountCreatedOnce ==
    [][TakesAuthorize /\ ~cfg.SoloPool /\ out'.result
       => LET id == AccountID(cur'.params.username[1]) IN
          IF id \in Range(accounts)
          THEN accounts' = accounts
          ELSE accounts' = Append(accounts, id)]_vars

\* The digit of str that ends up at index i (from 0) when the bytes of str,
\* two digits each, are put in reverse order.
ByteReversedAt(str, i) == str[Len(str) - 2 * (i \div 2) - 2 + (i % 2) + 1]
ByteReversed(str, rev) ==
    /\ Len(rev) = Len(str)
    /\ \A i \in 0..(Len(str) - 1) : rev[i + 1] = ByteReversedAt(str, i)

\* rev is str with the bytes of each 4-byte word (8 digits) in reverse order.
WordsByteReversed(str, rev) ==
    /\ Len(rev) = Len(str)
    /\ \A w \in 0..((Len(str) \div 8) - 1) :
         ByteReversed(SubSeq(str, 8 * w + 1, 8 * w + 8),
                      SubSeq(rev, 8 * w + 1, 8 * w + 8))

\* The fields no handler rewrites are those of the request.
SameJob(req, sent) ==
    /\ IsNotify(sent)
    /\ sent.job = req.job
    /\ sent.work.genTx1 = req.work.genTx1 /\ sent.work.genTx2 = req.work.genTx2
    /\ sent.work.blockVersion = req.work.blockVersion
    /\ sent.work.cleanJob = req.work.cleanJob

\* C22: what the handler of the miner emits for a mining.notify: for CPU the
\* request itself; for AntminerDR3, AntminerDR5 and InnosiliconD9 prevBlock
\* with the bytes of each 4-byte word reversed and nBits and nTime with their
\* bytes reversed; for WhatsminerD1 prevBlock rewritten the same way and nBits
\* and nTime as they were; jobID, genTx1, genTx2, blockVersion and cleanJob
\* as they were for each of them; for any other miner nothing, and a cancel.
\* Nothing is emitted together with a cancel.
C22_NotifyRewrittenByMiner ==
    workOut # NotRewritten
    => LET sent == workOut.emit IN
       /\ workOut.cancel <=> sent = NoMsg
       /\ cfg.miner = CPU => sent = workIn
       /\ cfg.miner \in {AntminerDR3, AntminerDR5, InnosiliconD9} /\ ~workOut.cancel
          => /\ SameJob(workIn, sent)
             /\ WordsByteReversed(workIn.work.prevBlock, sent.work.prevBlock)
             /\ ByteReversed(workIn.work.nBits, sent.work.nBits)
             /\ ByteReversed(workIn.work.nTime, sent.work.nTime)
       /\ cfg.miner = WhatsminerD1
          => /\ SameJob(workIn, sent)
             /\ WordsByteReversed(workIn.work.prevBlock, sent.work.prevBlock)
             /\ sent.work.nBits = workIn.work.nBits
             /\ sent.work.nTime = workIn.work.nTime
       /\ cfg.miner \notin KnownMiners => workOut.cancel

\* C22 witness: for a WhatsminerD1 a notification with 8-digit nBits and
\* nTime was emitted with another prevBlock and the same nBits and nTime.
C22_Witness ==
    /\ cfg.miner = WhatsminerD1 /\ workOut # NotRewritten /\ ~workOut.cancel
    /\ Len(workIn.work.nBits) = 8 /\ Len(workIn.work.nTime) = 8
    /\ workOut.emit.work.prevBlock # workIn.work.prevBlock
    /\ workOut.emit.work.nBits = workIn.work.nBits

\* C23: work is credited to authorized clients only: submissions is
\* incremented, a Share is persisted and SubmitWork is called only by the
\* handler of a mining.submit of a client whose authorized flag is true.
C23_CreditOnlyWhenAuthorized ==
    [][\/ submissions' > submissions
       \/ Len(shares') > Len(shares)
       \/ submitCalls' > submitCalls
       => /\ IsRequest(cur') /\ cur'.method = Submit
          /\ authorized]_vars

\* The step is the processor taking a mining.submit and running its handler.
TakesSubmit ==
    /\ reqNo' = reqNo + 1
    /\ IsRequest(cur') /\ cur'.method = Submit

\* C24: the handler of every mining.submit ends with one Response under the
\* request's id to hand to the sender, on every path, the path included on
\* which SubmitWork accepts the work and the AcceptedWork is persisted.
C24_SubmitAlwaysAnswered ==
    [][TakesSubmit
       => /\ procPc' = "send"
          /\ IsResponse(out') /\ out'.method = Submit /\ out'.id = cur'.id]_vars

\* C25: once the cancel signal has fired the processor, waiting in its
\* select, takes no further message from readCh: no handler runs, so the
\* step leaves authorized, subscribed, submissions and the database as they
\* are and prepares no Response.
C25_NoHandlerAfterCancel ==
    [][cancelled /\ procPc = "select"
       => /\ reqNo' = reqNo
          /\ UNCHANGED <<authorized, subscribed, submissions>>
          /\ UNCHANGED <<accounts, jobs, works>>
          /\ Len(shares') <= Len(shares) /\ submitCalls' <= submitCalls
          /\ out' = out]_vars

\* C26: every mining.notify on its way to the sender names the UUID of a
\* Job that is in the database when updateWork offers it, and a run of
\* updateWork in which the Job is not created or not persisted offers no
\* notify.
C26_NotifyNamesPersistedJob ==
    [][/\ IsNotify(msg') => msg'.job \in jobs'
       /\ RunsUpdateWork /\ jobs' = jobs => UNCHANGED <<msg, senderPc>>]_vars

\* updateWork has persisted a Job of its own and the sender holds the notify
\* that names it.
C26_Witness ==
    /\ senderPc = "handle" /\ IsNotify(msg)
    /\ msg.job \in jobs \ PoolJobs
    /\ msg.origin.no > 0

====
